---- MODULE Spec2Model ----
(***************************************************************************)
(* State-transition core of go-ellaism: core/state_processor.go.           *)
(*                                                                         *)
(* StateProcessor.Process runs the transactions of a block against a       *)
(* StateDB, one loop iteration per step, and then AccumulateRewards, one   *)
(* uncle per step.  The collaborators that live outside state_processor.go *)
(* (ChainConfig, GasPool, ApplyMessage, StateDB, types.NewReceipt) are     *)
(* modelled from their contracts in the specification.                     *)
(*                                                                         *)
(* Amounts of ether are counted in units of 10^12 wei, so that             *)
(* MaximumBlockReward = 5e18 wei reads 5000000.  Every amount the reward   *)
(* engine computes (k * 5e18 / 8, 5e18 / 32) is a whole number of such     *)
(* units, so the arithmetic below is the arithmetic of the code.           *)
(***************************************************************************)
EXTENDS Integers, Sequences, FiniteSets, TLC

VARIABLES
    config,        \* p.config: the chain configuration of the processor
    pc,            \* position of the Process call
    block,         \* the block being processed
    i,             \* 1-based index of the next transaction of the loop
    receipts,      \* Process' receipts accumulator
    allLogs,       \* Process' allLogs accumulator
    totalUsedGas,  \* Process' totalUsedGas (the big.Int ApplyTransaction adds to)
    gp,            \* the gas pool of this call
    ret,           \* what Process returned
    statedb,       \* the StateDB the call mutates in place
    journal,       \* the calls made on the collaborators, in order
    mem,           \* the big.Int objects the reward engine reads and writes
    u,             \* 1-based index of the next uncle of the rewards loop
    first,         \* the outcome of the first of two calls, once it is over
    era            \* a call of getBlockEra: its arguments and its result

vars == <<config, pc, block, i, receipts, allLogs, totalUsedGas, gp, ret,
          statedb, journal, mem, u, first, era>>

----------------------------------------------------------------------------
(* Bounds of the model *)

MaxTxs == 2
MaxUncles == 2

(* Protocol constants, state_processor.go:32-36 *)
MaximumBlockReward == 5000000
big8 == 8
big32 == 32

SeqsUpTo(S, n) == UNION {[1..k -> S] : k \in 0..n}

RECURSIVE SumSeq(_)
SumSeq(s) == IF s = <<>> THEN 0 ELSE s[1] + SumSeq(Tail(s))

RECURSIVE Concat(_)
Concat(ss) == IF ss = <<>> THEN <<>> ELSE ss[1] \o Concat(Tail(ss))

----------------------------------------------------------------------------
(* Inputs *)

Addrs == {"a", "b"}
BlockNumbers == {10}
GasLimits == {2, 3}

\* A transaction: the fields Process and ApplyTransaction read (protected
\* flag, chain id, gas limit, recipient, sender, nonce) and what the execution
\* engine does with it when it is applied (fail: it reports an execution error;
\* used: the gas it consumes; nlogs: the logs it emits).  An unprotected
\* transaction carries chain id 0; to = <<>> is a contract creation.
TxSet ==
    {t \in [protected : BOOLEAN, chainId : 0..2, gas : 1..2, used : 1..2,
            fail : BOOLEAN, nlogs : 0..1,
            to : {<<"b">>}, from : {"a"}, nonce : {0}] :
        /\ t.protected <=> t.chainId # 0
        /\ t.used <= t.gas
        /\ t.fail => (t.gas = 1 /\ t.nlogs = 0)}

\* Transactions that vary the recipient, the sender and the nonce, and two
\* protected ones.
ProbeTxSet ==
    [protected : {FALSE}, chainId : {0}, gas : {1}, used : {1},
     fail : {FALSE}, nlogs : {1},
     to : {<<>>, <<"b">>}, from : Addrs, nonce : 0..1]
    \cup
    [protected : {TRUE}, chainId : 1..2, gas : {1}, used : {1},
     fail : {FALSE}, nlogs : {0},
     to : {<<"b">>}, from : {"a"}, nonce : {0}]

UncleSet == [number : {9, 8, 2, 1}, coinbase : Addrs]

\* Transaction lists used with the blocks that vary the uncles.
SampleTxLists ==
    {<<>>,
     <<[protected |-> FALSE, chainId |-> 0, gas |-> 2, used |-> 1,
        fail |-> FALSE, nlogs |-> 1, to |-> <<"b">>, from |-> "a",
        nonce |-> 0]>>}

\* The blocks handed to Process: every transaction list up to MaxTxs with no
\* uncles, every uncle list up to MaxUncles with a sample transaction list, and
\* every list of probe transactions up to MaxTxs on either side of block 20.
Blocks ==
    [number : BlockNumbers, coinbase : {"a"}, gasLimit : GasLimits,
     txs : SeqsUpTo(TxSet, MaxTxs), uncles : {<<>>}]
    \cup
    [number : BlockNumbers, coinbase : Addrs, gasLimit : {3},
     txs : SampleTxLists, uncles : SeqsUpTo(UncleSet, MaxUncles)]
    \cup
    [number : {10, 25}, coinbase : {"a"}, gasLimit : {3},
     txs : SeqsUpTo(ProbeTxSet, MaxTxs), uncles : {<<>>}]

\* A fork of the chain configuration that carries the eip155 feature: its
\* activation block and the feature's chainID option (<<>>: not set).
Fork(b, c) == [Block |-> b, chainID |-> c]

Configs ==
    {<<>>,
     <<Fork(5, <<1>>)>>,
     <<Fork(20, <<1>>)>>,
     <<Fork(5, <<>>)>>,
     <<Fork(5, <<1>>), Fork(20, <<2>>)>>}

EmptyBlock ==
    [number |-> 0, coinbase |-> "a", gasLimit |-> 0, txs |-> <<>>, uncles |-> <<>>]

----------------------------------------------------------------------------
(* Values *)

\* tx.Hash(), block.Hash(): one hash per content.
TxHash(tx) == <<"tx", tx>>
BlockHash(b) == <<"block", b.number, b.coinbase, b.gasLimit>>
ZeroHash == <<"zero", 0>>

\* Errors.  a, b are the two values the error message names.
NoErr == [kind |-> "nil", a |-> 0, b |-> 0]
ConfigurationError(num, txChainId) ==
    [kind |-> "ConfigurationError", a |-> num, b |-> txChainId]
ValidationError(current, txChainId) ==
    [kind |-> "ValidationError", a |-> current, b |-> txChainId]
GasLimitReached == [kind |-> "ExecutionError", a |-> 1, b |-> 0]
EngineFailure == [kind |-> "ExecutionError", a |-> 2, b |-> 0]

Event(op, arg) == [op |-> op, arg |-> arg]

----------------------------------------------------------------------------
(* ChainConfig: the Fork Gate *)

Max(S) == CHOOSE x \in S : \A y \in S : y <= x

\* GetFeature(num, "eip155"): the feature of the latest fork at or before num.
GetFeature(cfg, num) ==
    LET active == {k \in 1..Len(cfg) : cfg[k].Block <= num}
    IN  IF active = {}
        THEN [configured |-> FALSE, chainID |-> <<>>]
        ELSE [configured |-> TRUE, chainID |-> cfg[Max(active)].chainID]

\* feat.GetBigInt("chainID"): the value and whether it is set.
GetBigInt(feat) ==
    IF feat.chainID = <<>>
    THEN [val |-> 0, ok |-> FALSE]
    ELSE [val |-> feat.chainID[1], ok |-> TRUE]

\* GetChainID(): the chainID of the last fork that sets one, whatever the block
\* number; zero when there is none.
GetChainID(cfg) ==
    LET set == {k \in 1..Len(cfg) : cfg[k].chainID # <<>>}
    IN  IF set = {} THEN 0 ELSE cfg[Max(set)].chainID[1]

----------------------------------------------------------------------------
(* GasPool *)

AddGas(pool, amount) == pool + amount

\* SubGas: an error, and the pool untouched, when the pool holds less.
SubGas(pool, amount) ==
    IF pool < amount
    THEN [pool |-> pool, err |-> GasLimitReached]
    ELSE [pool |-> pool - amount, err |-> NoErr]

----------------------------------------------------------------------------
(* StateDB *)

NewStateDB ==
    [balance |-> [a \in Addrs |-> 0],
     logs |-> <<>>,
     applied |-> <<>>,
     thash |-> ZeroHash, bhash |-> ZeroHash, txIndex |-> 0]

StartRecord(s, thash, bhash, ti) ==
    [s EXCEPT !.thash = thash, !.bhash = bhash, !.txIndex = ti]

\* AddLog: the log is stamped with the recording context and stored under thash.
AddLog(s) ==
    [s EXCEPT !.logs = Append(@, [txHash |-> s.thash, blockHash |-> s.bhash,
                                  txIndex |-> s.txIndex, index |-> Len(s.logs)])]

GetLogs(s, hash) == SelectSeq(s.logs, LAMBDA l : l.txHash = hash)

AddBalance(s, addr, amount) ==
    [s EXCEPT !.balance[addr] = @ + amount]

IntermediateRoot(s) == <<"root", s.applied, s.balance>>

----------------------------------------------------------------------------
(* Execution engine *)

RECURSIVE AddLogs(_, _)
AddLogs(s, n) == IF n = 0 THEN s ELSE AddLogs(AddLog(s), n - 1)

\* The transaction has already been applied to the state: its nonce is spent.
NonceSpent(s, tx) == \E k \in 1..Len(s.applied) : s.applied[k] = TxHash(tx)

\* ApplyMessage: refuses a transaction whose nonce is spent, buys tx.gas from
\* the pool (an error when the pool holds less), runs the message, and gives
\* the unused gas back to the pool.  A message the engine rejects leaves the
\* state as it was.
ApplyMessage(s, tx, pool) ==
    LET bought == SubGas(pool, tx.gas)
    IN  IF NonceSpent(s, tx)
        THEN [gas |-> 0, err |-> EngineFailure, pool |-> pool, statedb |-> s]
        ELSE IF bought.err # NoErr
        THEN [gas |-> 0, err |-> bought.err, pool |-> bought.pool, statedb |-> s]
        ELSE IF tx.fail
        THEN [gas |-> 0, err |-> EngineFailure, pool |-> bought.pool, statedb |-> s]
        ELSE [gas |-> tx.used, err |-> NoErr,
              pool |-> AddGas(bought.pool, tx.gas - tx.used),
              statedb |-> AddLogs([s EXCEPT !.applied = Append(@, TxHash(tx))],
                                  tx.nlogs)]

----------------------------------------------------------------------------
(* types.Receipt *)

NoReceipt ==
    [PostState |-> <<>>, CumulativeGasUsed |-> 0, TxHash |-> ZeroHash,
     GasUsed |-> 0, ContractAddress |-> <<>>, Logs |-> <<>>, Bloom |-> {}]

\* types.NewReceipt(root, cumulativeGasUsed): the receipt holds a copy of the
\* cumulative gas, not the caller's big.Int.
NewReceipt(root, cumulativeGasUsed) ==
    [NoReceipt EXCEPT !.PostState = root, !.CumulativeGasUsed = cumulativeGasUsed]

CreateBloom(logs) == {logs[k].index : k \in 1..Len(logs)}

----------------------------------------------------------------------------
(* ApplyTransaction, state_processor.go:101-126 *)

UsedGasAdd_Set(usedGas, gas) == gas

\* usedGas.Add(usedGas, gas)
UsedGasAdd(usedGas, gas) == usedGas + gas

\* receipt.TxHash = tx.Hash()
ReceiptTxHash(tx) == TxHash(tx)

\* MessageCreatesContract(tx): the transaction has no recipient.
MessageCreatesContract(tx) == tx.to = <<>>

\* crypto.CreateAddress(from, nonce): one address per sender and nonce.
CreateAddress(from, nonce) == <<"contract", from, nonce>>

ReceiptContractAddress_Always(tx) == <<CreateAddress(tx.from, tx.nonce)>>

\* Lines 114-117: the ContractAddress of the receipt, <<>> when it is not set.
ReceiptContractAddress(tx) ==
    IF MessageCreatesContract(tx)
    THEN <<CreateAddress(tx.from, tx.nonce)>>
    ELSE <<>>

\* logs := statedb.GetLogs(tx.Hash())
ReceiptLogs(s, tx) == GetLogs(s, TxHash(tx))

\* The result of ApplyTransaction with the values it leaves in the objects it
\* was handed: the gas pool, the state and the usedGas accumulator.
ApplyTransaction(pool, s, tx, usedGas) ==
    LET m == ApplyMessage(s, tx, pool)
    IN  IF m.err # NoErr
        THEN [receipt |-> NoReceipt, logs |-> <<>>, gas |-> <<>>, err |-> m.err,
              pool |-> m.pool, statedb |-> m.statedb, usedGas |-> usedGas]
        ELSE LET used == UsedGasAdd(usedGas, m.gas)
                 logs == ReceiptLogs(m.statedb, tx)
                 receipt ==
                     [NewReceipt(IntermediateRoot(m.statedb), used) EXCEPT
                         !.TxHash = ReceiptTxHash(tx),
                         !.GasUsed = m.gas,
                         !.ContractAddress = ReceiptContractAddress(tx),
                         !.Logs = logs,
                         !.Bloom = CreateBloom(logs)]
             IN  [receipt |-> receipt, logs |-> logs, gas |-> <<m.gas>>,
                  err |-> NoErr, pool |-> m.pool, statedb |-> m.statedb,
                  usedGas |-> used]

----------------------------------------------------------------------------
(* AccumulateRewards, state_processor.go:132-153 *)

\* The big.Int objects: the package variables MaximumBlockReward, big8 and
\* big32, the locals r and reward, and the Number of the header and of each
\* uncle of the block handed to Process.  A location names one of them.
NewMem ==
    [MaximumBlockReward |-> MaximumBlockReward, big8 |-> big8, big32 |-> big32,
     r |-> 0, reward |-> 0, header |-> 0, uncles |-> <<>>]

Loc(f) == [f |-> f, k |-> 0]
UncleNumber(k) == [f |-> "uncles", k |-> k]

Load(m, loc) == IF loc.f = "uncles" THEN m.uncles[loc.k] ELSE m[loc.f]
Store(m, loc, v) ==
    IF loc.f = "uncles"
    THEN [m EXCEPT !.uncles[loc.k] = v]
    ELSE [m EXCEPT ![loc.f] = v]

\* z.Add(x, y), z.Sub(x, y), z.Mul(x, y), z.Div(x, y): the receiver z is set,
\* the operands are read.  Div is Euclidean division; the divisors are positive.
BigAdd(m, z, x, y) == Store(m, z, Load(m, x) + Load(m, y))
BigSub(m, z, x, y) == Store(m, z, Load(m, x) - Load(m, y))
BigMul(m, z, x, y) == Store(m, z, Load(m, x) * Load(m, y))
BigDiv(m, z, x, y) == Store(m, z, Load(m, x) \div Load(m, y))

UncleReward_DivFirst(m, k) ==
    LET m1 == BigAdd(m, Loc("r"), UncleNumber(k), Loc("big8"))
        m2 == BigSub(m1, Loc("r"), Loc("r"), Loc("header"))
        m3 == BigDiv(m2, Loc("r"), Loc("r"), Loc("big8"))
    IN  BigMul(m3, Loc("r"), Loc("r"), Loc("MaximumBlockReward"))

UncleReward_Aliased(m, k) ==
    LET m1 == BigAdd(m, UncleNumber(k), UncleNumber(k), Loc("big8"))
        m2 == BigSub(m1, Loc("r"), UncleNumber(k), Loc("header"))
        m3 == BigMul(m2, Loc("r"), Loc("r"), Loc("MaximumBlockReward"))
    IN  BigDiv(m3, Loc("r"), Loc("r"), Loc("big8"))

UncleReward_Clamped(m, k) ==
    LET m1 == BigAdd(m, Loc("r"), UncleNumber(k), Loc("big8"))
        m2 == BigSub(m1, Loc("r"), Loc("r"), Loc("header"))
        m3 == BigMul(m2, Loc("r"), Loc("r"), Loc("MaximumBlockReward"))
        m4 == BigDiv(m3, Loc("r"), Loc("r"), Loc("big8"))
    IN  IF m4.r < 0 THEN Store(m4, Loc("r"), 0) ELSE m4

\* Lines 143-146, for the k-th uncle: the objects after
\* r.Add(uncle.Number, big8); r.Sub(r, header.Number);
\* r.Mul(r, MaximumBlockReward); r.Div(r, big8)
UncleReward(m, k) ==
    LET m1 == BigAdd(m, Loc("r"), UncleNumber(k), Loc("big8"))
        m2 == BigSub(m1, Loc("r"), Loc("r"), Loc("header"))
        m3 == BigMul(m2, Loc("r"), Loc("r"), Loc("MaximumBlockReward"))
    IN  BigDiv(m3, Loc("r"), Loc("r"), Loc("big8"))

UncleBonus_Div8(m) ==
    LET m1 == BigDiv(m, Loc("r"), Loc("MaximumBlockReward"), Loc("big8"))
    IN  BigAdd(m1, Loc("reward"), Loc("reward"), Loc("r"))

UncleBonus_InPlace(m) ==
    LET m1 == BigDiv(m, Loc("MaximumBlockReward"), Loc("MaximumBlockReward"),
                     Loc("big32"))
        m2 == Store(m1, Loc("r"), m1.MaximumBlockReward)
    IN  BigAdd(m2, Loc("reward"), Loc("reward"), Loc("r"))

\* Lines 149-150: the objects after
\* r.Div(MaximumBlockReward, big32); reward.Add(reward, r)
UncleBonus(m) ==
    LET m1 == BigDiv(m, Loc("r"), Loc("MaximumBlockReward"), Loc("big32"))
    IN  BigAdd(m1, Loc("reward"), Loc("reward"), Loc("r"))

InitialReward_Bonus(m) == m.MaximumBlockReward \div m.big32

InitialReward_PlusGas(m) == m.MaximumBlockReward + totalUsedGas

\* reward := new(big.Int).Set(MaximumBlockReward)
InitialReward(m) == m.MaximumBlockReward

----------------------------------------------------------------------------
(* StateProcessor.Process, state_processor.go:62-94 *)

NoRet == [receipts |-> <<>>, logs |-> <<>>, gas |-> <<>>, err |-> NoErr]

AppendLogs_Replace(ls, logs) == logs

\* allLogs = append(allLogs, logs...)
AppendLogs(ls, logs) == ls \o logs

\* return nil, nil, nil, fmt.Errorf(...)
ErrorReturn(e) == [receipts |-> <<>>, logs |-> <<>>, gas |-> <<>>, err |-> e]

ApplyFailReturn_NilGas(usedGas, e) ==
    [receipts |-> <<>>, logs |-> <<>>, gas |-> <<>>, err |-> e]

\* return nil, nil, totalUsedGas, err
ApplyFailReturn(usedGas, e) ==
    [receipts |-> <<>>, logs |-> <<>>, gas |-> <<usedGas>>, err |-> e]

\* return receipts, allLogs, totalUsedGas, err
SuccessReturn(rs, ls, usedGas) ==
    [receipts |-> rs, logs |-> ls, gas |-> <<usedGas>>, err |-> NoErr]

ChainIdCheck_NoCompare(cfg, blk, tx) ==
    LET feat == GetFeature(cfg, blk.number)
        chainId == GetBigInt(feat)
    IN  IF ~feat.configured \/ ~chainId.ok
        THEN ConfigurationError(blk.number, tx.chainId)
        ELSE NoErr

ChainIdCheck_WrongId(cfg, blk, tx) ==
    LET feat == GetFeature(cfg, blk.number)
        chainId == GetBigInt(feat)
    IN  IF ~feat.configured \/ ~chainId.ok
        THEN ConfigurationError(blk.number, GetChainID(cfg))
        ELSE IF tx.chainId # chainId.val
        THEN ValidationError(GetChainID(cfg), tx.chainId)
        ELSE NoErr

\* The chain-id check of a protected transaction, lines 73-82: the error it
\* returns, NoErr when the transaction passes.
ChainIdCheck(cfg, blk, tx) ==
    LET feat == GetFeature(cfg, blk.number)
        chainId == GetBigInt(feat)
    IN  IF ~feat.configured \/ ~chainId.ok
        THEN ConfigurationError(blk.number, tx.chainId)
        ELSE IF tx.chainId # chainId.val
        THEN ValidationError(GetChainID(cfg), tx.chainId)
        ELSE NoErr

\* No first call is over yet.
NoFirst == [called |-> FALSE, ret |-> NoRet, statedb |-> NewStateDB, credits |-> <<>>]

\* getBlockEra has not been called.
NoEra == [blockNum |-> 0, eraLength |-> 1, result |-> <<>>]

Init ==
    /\ config \in Configs
    /\ pc = "idle"
    /\ block = EmptyBlock
    /\ i = 0
    /\ receipts = <<>>
    /\ allLogs = <<>>
    /\ totalUsedGas = 0
    /\ gp = 0
    /\ ret = NoRet
    /\ statedb = NewStateDB
    /\ journal = <<>>
    /\ mem = NewMem
    /\ u = 0
    /\ first = NoFirst
    /\ era = NoEra

\* The Number objects of the block handed to Process.
BlockNumbersOf(m, b) ==
    [m EXCEPT !.header = b.number,
              !.uncles = [k \in 1..Len(b.uncles) |-> b.uncles[k].number]]

RecordContext_NoIndex(s, blk, tx, idx) ==
    StartRecord(s, TxHash(tx), BlockHash(blk), 0)

\* Line 83: statedb.StartRecord(tx.Hash(), block.Hash(), i)
RecordContext(s, blk, tx, idx) ==
    StartRecord(s, TxHash(tx), BlockHash(blk), idx)

\* Lines 63-70: the call's locals.
ProcessBegin ==
    /\ pc = "idle"
    /\ pc' = "loop"
    /\ \E b \in Blocks :
          /\ block' = b
          /\ gp' = AddGas(0, b.gasLimit)
          /\ mem' = BlockNumbersOf(mem, b)
    /\ i' = 1
    /\ receipts' = <<>>
    /\ allLogs' = <<>>
    /\ totalUsedGas' = 0
    /\ UNCHANGED <<config, ret, statedb, journal, u, first, era>>

InLoop == pc = "loop" /\ i <= Len(block.txs)

\* The call of ApplyTransaction on the Fork Gate, line 102:
\* config.GetSigner(header.Number)
SignerCalls(header) == <<Event("GetSigner", <<header.number>>)>>

GateCalls_Always(tx) == <<Event("GetFeature", <<block.number>>)>>


\* The calls of one iteration on the Fork Gate, lines 73-75.
GateCalls(tx) ==
    IF tx.protected THEN <<Event("GetFeature", <<block.number>>)>> ELSE <<>>

TxRejected_Rollback ==
    /\ InLoop
    /\ LET tx == block.txs[i]
           e == ChainIdCheck(config, block, tx)
       IN  /\ tx.protected
           /\ e # NoErr
           /\ ret' = ErrorReturn(e)
           /\ journal' = journal \o GateCalls(tx)
    /\ pc' = "done"
    /\ statedb' = NewStateDB
    /\ UNCHANGED <<config, block, i, receipts, allLogs, totalUsedGas, gp,
                   mem, u, first, era>>

\* Lines 73-82, a protected transaction that fails the chain-id check.
TxRejected ==
    /\ InLoop
    /\ LET tx == block.txs[i]
           e == ChainIdCheck(config, block, tx)
       IN  /\ tx.protected
           /\ e # NoErr
           /\ ret' = ErrorReturn(e)
           /\ journal' = journal \o GateCalls(tx)
    /\ pc' = "done"
    /\ UNCHANGED <<config, block, i, receipts, allLogs, totalUsedGas, gp,
                   statedb, mem, u, first, era>>

Passes(tx) == ~tx.protected \/ ChainIdCheck(config, block, tx) = NoErr

TxApplyFail_Skip ==
    /\ InLoop
    /\ LET tx == block.txs[i]
           s1 == RecordContext(statedb, block, tx, i - 1)
           a == ApplyTransaction(gp, s1, tx, totalUsedGas)
       IN  /\ Passes(tx)
           /\ a.err # NoErr
           /\ statedb' = a.statedb
           /\ gp' = a.pool
           /\ totalUsedGas' = a.usedGas
           /\ journal' = journal \o GateCalls(tx) \o
                   <<Event("StartRecord", <<i - 1>>),
                     Event("ApplyTransaction", <<i - 1, a.err>>)>> \o
                   SignerCalls(block)
    /\ i' = i + 1
    /\ UNCHANGED <<config, pc, block, ret, receipts, allLogs, mem, u, first, era>>

\* Lines 83-87, ApplyTransaction fails.
TxApplyFail ==
    /\ InLoop
    /\ LET tx == block.txs[i]
           s1 == RecordContext(statedb, block, tx, i - 1)
           a == ApplyTransaction(gp, s1, tx, totalUsedGas)
       IN  /\ Passes(tx)
           /\ a.err # NoErr
           /\ statedb' = a.statedb
           /\ gp' = a.pool
           /\ totalUsedGas' = a.usedGas
           /\ ret' = ApplyFailReturn(a.usedGas, a.err)
           /\ journal' = journal \o GateCalls(tx) \o
                   <<Event("StartRecord", <<i - 1>>),
                     Event("ApplyTransaction", <<i - 1, a.err>>)>> \o
                   SignerCalls(block)
    /\ pc' = "done"
    /\ UNCHANGED <<config, block, i, receipts, allLogs, mem, u, first, era>>

\* Lines 83-89, ApplyTransaction succeeds.
TxApplyOk ==
    /\ InLoop
    /\ LET tx == block.txs[i]
           s1 == RecordContext(statedb, block, tx, i - 1)
           a == ApplyTransaction(gp, s1, tx, totalUsedGas)
       IN  /\ Passes(tx)
           /\ a.err = NoErr
           /\ statedb' = a.statedb
           /\ gp' = a.pool
           /\ totalUsedGas' = a.usedGas
           /\ receipts' = Append(receipts, a.receipt)
           /\ allLogs' = AppendLogs(allLogs, a.logs)
           /\ journal' = journal \o GateCalls(tx) \o
                   <<Event("StartRecord", <<i - 1>>),
                     Event("ApplyTransaction", <<i - 1, a.err>>)>> \o
                   SignerCalls(block)
    /\ i' = i + 1
    /\ UNCHANGED <<config, pc, block, ret, mem, u, first, era>>

RewardsBegin_Early ==
    /\ pc = "loop"
    /\ pc' = "rewards"
    /\ mem' = [mem EXCEPT !.reward = InitialReward(mem), !.r = 0]
    /\ u' = 1
    /\ journal' = Append(journal, Event("AccumulateRewards", <<>>))
    /\ UNCHANGED <<config, block, i, receipts, allLogs, totalUsedGas, gp, ret,
                   statedb, first, era>>

\* Line 91 and lines 133-134: the loop is over, AccumulateRewards starts.
RewardsBegin ==
    /\ pc = "loop"
    /\ i > Len(block.txs)
    /\ pc' = "rewards"
    /\ mem' = [mem EXCEPT !.reward = InitialReward(mem), !.r = 0]
    /\ u' = 1
    /\ journal' = Append(journal, Event("AccumulateRewards", <<>>))
    /\ UNCHANGED <<config, block, i, receipts, allLogs, totalUsedGas, gp, ret,
                   statedb, first, era>>

\* Lines 142-151, one uncle.
RewardUncle ==
    /\ pc = "rewards"
    /\ u <= Len(block.uncles)
    /\ LET uncle == block.uncles[u]
           m1 == UncleReward(mem, u)
       IN  /\ statedb' = AddBalance(statedb, uncle.coinbase, m1.r)
           /\ journal' = Append(journal,
                                Event("AddBalance", <<uncle.coinbase, m1.r>>))
           /\ mem' = UncleBonus(m1)
    /\ u' = u + 1
    /\ UNCHANGED <<config, pc, block, i, receipts, allLogs, totalUsedGas, gp,
                   ret, first, era>>

\* Line 152, and Process returns, line 93.
RewardCoinbase ==
    /\ pc = "rewards"
    /\ u > Len(block.uncles)
    /\ statedb' = AddBalance(statedb, block.coinbase, mem.reward)
    /\ journal' = Append(journal,
                         Event("AddBalance", <<block.coinbase, mem.reward>>))
    /\ ret' = SuccessReturn(receipts, allLogs, totalUsedGas)
    /\ pc' = "done"
    /\ UNCHANGED <<config, block, i, receipts, allLogs, totalUsedGas, gp,
                   mem, u, first, era>>

Next ==
    \/ ProcessBegin
    \/ TxRejected
    \/ TxApplyFail
    \/ TxApplyOk
    \/ RewardsBegin
    \/ RewardUncle
    \/ RewardCoinbase

Spec == Init /\ [][Next]_vars

----------------------------------------------------------------------------
(* Properties *)

Txs == block.txs
NTxs == Len(block.txs)
Done == pc = "done"
Failed == Done /\ ret.err # NoErr
Succeeded == Done /\ ret.err = NoErr

\* The journal's calls of one kind, in order.
Calls(op) == SelectSeq(journal, LAMBDA e : e.op = op)

\* The positions of the journal at which transaction k (1-based) was handed to
\* ApplyTransaction.
ApplyCalls(k) ==
    {p \in 1..Len(journal) :
        journal[p].op = "ApplyTransaction" /\ journal[p].arg[1] = k - 1}
Applied(k) == ApplyCalls(k) # {}
AppliedOk(k) == \E p \in ApplyCalls(k) : journal[p].arg[2] = NoErr
ApplyFailedAt(k) == \E p \in ApplyCalls(k) : journal[p].arg[2] # NoErr

\* The gas the engine consumes for transactions 1..k.
UsedThrough(k) == SumSeq([j \in 1..k |-> Txs[j].used])

\* C1: if ApplyTransaction fails for transaction k, Process has returned no
\* receipts and no logs, the gas consumed by the transactions before k, and the
\* error ApplyTransaction gave; no later transaction is applied.
C1_ApplyFailureAborts ==
    \A k \in 1..NTxs :
        ApplyFailedAt(k) =>
            /\ Done
            /\ ret.receipts = <<>>
            /\ ret.logs = <<>>
            /\ ret.gas = <<UsedThrough(k - 1)>>
            /\ \A p \in ApplyCalls(k) : ret.err = journal[p].arg[2]
            /\ \A j \in (k + 1)..NTxs : ~Applied(j)

C1_Witness ==
    /\ Done
    /\ ApplyFailedAt(2)
    /\ ret.gas = <<2>>

\* Transaction k is protected and its chain id differs from the chainID the
\* eip155 rule carries at the block's number.
Mismatch(k) ==
    LET feat == GetFeature(config, block.number)
    IN  /\ Txs[k].protected
        /\ feat.configured
        /\ feat.chainID # <<>>
        /\ Txs[k].chainId # feat.chainID[1]

\* C2 as stated: a block that contains a mismatching protected transaction
\* makes Process return a ValidationError and no receipts, and neither that
\* transaction nor a later one is applied.
C2_Original ==
    \A k \in 1..NTxs :
        Mismatch(k) =>
            /\ \A j \in k..NTxs : ~Applied(j)
            /\ Done => (ret.err.kind = "ValidationError" /\ ret.receipts = <<>>)

\* C2 (amended): when every transaction before a mismatching protected
\* transaction has been applied successfully, Process returns a ValidationError
\* and no receipts; neither the mismatching transaction nor a later one is
\* ever applied.
C2_MismatchRejected ==
    \A k \in 1..NTxs :
        Mismatch(k) =>
            /\ \A j \in k..NTxs : ~Applied(j)
            /\ (Done /\ \A j \in 1..(k - 1) : AppliedOk(j)) =>
                    (ret.err.kind = "ValidationError" /\ ret.receipts = <<>>)

C2_Witness ==
    /\ Done
    /\ NTxs = 2
    /\ Mismatch(2)
    /\ AppliedOk(1)
    /\ ret.err.kind = "ValidationError"

\* The eip155 rule is not configured at the block's number.
NotConfigured == ~GetFeature(config, block.number).configured

\* Transaction k is the first protected transaction of the block.
FirstProtected(k) ==
    /\ Txs[k].protected
    /\ \A j \in 1..(k - 1) : ~Txs[j].protected

\* C3 as stated: with the rule not configured, a block that contains a
\* protected transaction makes Process fail with a configuration error naming
\* the block number and that transaction's chain id, and the transaction is
\* not applied.
C3_Original ==
    \A k \in 1..NTxs :
        (NotConfigured /\ FirstProtected(k)) =>
            /\ ~Applied(k)
            /\ Done => ret.err = ConfigurationError(block.number, Txs[k].chainId)

\* C3 (amended): with the rule not configured, when every transaction before
\* the first protected transaction has been applied successfully, Process fails
\* with a configuration error naming the block number and that transaction's
\* chain id; a protected transaction is never applied.
C3_NotConfiguredRejected ==
    \A k \in 1..NTxs :
        (NotConfigured /\ Txs[k].protected) =>
            /\ ~Applied(k)
            /\ (Done /\ \A j \in 1..(k - 1) : AppliedOk(j)) =>
                    ret.err = ConfigurationError(block.number, Txs[k].chainId)

C3_Witness ==
    /\ Done
    /\ NotConfigured
    /\ config # <<>>
    /\ NTxs = 2
    /\ Txs[2].protected
    /\ AppliedOk(1)
    /\ ret.err = ConfigurationError(10, 2)

\* The positions of the journal's calls of one kind.
Positions(op) == {p \in 1..Len(journal) : journal[p].op = op}

\* C4: the cumulative gas of every receipt is the sum of the gas used by the
\* transactions up to and including its own, and stays so while later
\* transactions are applied (hence it never decreases along the receipts); on
\* success the gas used of the returned receipts adds up to the returned total.
C4_GasAccounting ==
    /\ \A k \in 1..Len(receipts) :
          /\ receipts[k].GasUsed = Txs[k].used
          /\ receipts[k].CumulativeGasUsed =
                SumSeq([j \in 1..k |-> receipts[j].GasUsed])
          /\ \A j \in 1..k :
                receipts[j].CumulativeGasUsed <= receipts[k].CumulativeGasUsed
    /\ Succeeded =>
          /\ ret.receipts = receipts
          /\ ret.gas =
                <<SumSeq([j \in 1..Len(ret.receipts) |-> ret.receipts[j].GasUsed])>>

C4_Witness ==
    /\ Succeeded
    /\ Len(ret.receipts) = 2
    /\ ret.receipts[1].CumulativeGasUsed = 1
    /\ ret.receipts[2].CumulativeGasUsed = 3
    /\ ret.gas = <<3>>

\* C5: the gas pool starts at the block's gas limit and is never negative, and
\* a transaction that asks for more gas than the pool holds when the loop
\* reaches it makes Process fail and return no receipts.
C5_GasPool ==
    /\ [](pc # "idle" => gp >= 0)
    /\ []((pc = "loop" /\ i = 1) => gp = block.gasLimit)
    /\ [][(InLoop /\ Txs[i].gas > gp) =>
              (pc' = "done" /\ ret'.err # NoErr /\ ret'.receipts = <<>>)]_vars

C5_Witness ==
    /\ Failed
    /\ ret.err = GasLimitReached
    /\ AppliedOk(1)
    /\ gp = 1

\* C6: a call that returns an error has made no reward credit; AccumulateRewards
\* runs only once every transaction of the block has been applied successfully,
\* and in a successful call it has run exactly once, after the last transaction.
C6_RewardsAfterTxs ==
    /\ Failed =>
          /\ Calls("AccumulateRewards") = <<>>
          /\ Calls("AddBalance") = <<>>
          /\ statedb.balance = NewStateDB.balance
    /\ \A p \in Positions("AccumulateRewards") :
          \A k \in 1..NTxs :
              /\ AppliedOk(k)
              /\ \A q \in ApplyCalls(k) : q < p
    /\ \A p \in Positions("AddBalance") :
          \E q \in Positions("AccumulateRewards") : q < p
    /\ Succeeded => Len(Calls("AccumulateRewards")) = 1

C6_Witness ==
    /\ Succeeded
    /\ NTxs = 1
    /\ Len(block.uncles) = 2
    /\ Len(Calls("AddBalance")) = 3

\* The AddBalance calls made so far, as <<address, amount>> pairs.
Credits == [k \in 1..Len(Calls("AddBalance")) |-> Calls("AddBalance")[k].arg]
Uncles == block.uncles
NUncles == Len(block.uncles)

\* What the credits of a sequence add up to for one address.
RECURSIVE CreditedTo(_, _)
CreditedTo(cs, a) ==
    IF cs = <<>> THEN 0
    ELSE (IF cs[1][1] = a THEN cs[1][2] ELSE 0) + CreditedTo(Tail(cs), a)

\* C7: the k-th credit of AccumulateRewards goes to the k-th uncle's coinbase
\* and is exactly (u.number + 8 - header.number) * baseReward / 8, whatever the
\* other uncles are; it is 7/8 of baseReward for an uncle one block behind; the
\* balances move by the credits.
C7_UncleReward ==
    /\ \A k \in 1..NUncles :
          k <= Len(Credits) =>
              /\ Credits[k][1] = Uncles[k].coinbase
              /\ 8 * Credits[k][2] =
                    (Uncles[k].number + 8 - block.number) * MaximumBlockReward
              /\ Uncles[k].number = block.number - 1 =>
                    8 * Credits[k][2] = 7 * MaximumBlockReward
    /\ \A a \in Addrs : statedb.balance[a] = CreditedTo(Credits, a)

C7_Witness ==
    /\ Succeeded
    /\ NUncles = 2
    /\ Uncles[1].number = 8
    /\ Uncles[2].number = 9
    /\ Uncles[1].coinbase = Uncles[2].coinbase
    /\ Credits[2][2] = 4375000

\* C8: a successful call has made the credits of the n uncles and then, last and
\* once, the credit of header.coinbase with baseReward + n * (baseReward / 32),
\* whatever the uncles' numbers; before the last uncle is done the coinbase
\* credit has not been made.
C8_CoinbaseReward ==
    /\ Succeeded =>
          /\ Len(Credits) = NUncles + 1
          /\ Credits[NUncles + 1][1] = block.coinbase
          /\ 32 * (Credits[NUncles + 1][2] - MaximumBlockReward) =
                NUncles * MaximumBlockReward
          /\ \A k \in 1..NUncles : Credits[k][1] = Uncles[k].coinbase
    /\ ~Done => Len(Credits) <= NUncles
    /\ pc = "rewards" => Len(Credits) = u - 1

C8_Witness ==
    /\ Succeeded
    /\ NUncles = 2
    /\ Uncles[1].number = 9
    /\ Uncles[2].number = 1
    /\ Credits[3] = <<block.coinbase, 5312500>>

\* C9: Process on a block with no transactions and no uncles returns empty
\* receipts, empty logs, zero gas used and no error, and all it has done to the
\* state is one credit of baseReward to the header's coinbase.
C9_EmptyBlock ==
    (Done /\ Txs = <<>> /\ Uncles = <<>>) =>
        /\ ret = [receipts |-> <<>>, logs |-> <<>>, gas |-> <<0>>, err |-> NoErr]
        /\ Credits = <<<<block.coinbase, MaximumBlockReward>>>>
        /\ statedb =
              [NewStateDB EXCEPT !.balance[block.coinbase] = MaximumBlockReward]

C9_Witness ==
    /\ Done
    /\ Txs = <<>>
    /\ Uncles = <<>>
    /\ statedb.balance[block.coinbase] = 5000000

\* C10: a successful call returns one receipt per transaction, receipt k
\* carrying the hash of transaction k, and the returned logs are the logs of the
\* receipts, concatenated in that order.
C10_ReceiptsInOrder ==
    /\ \A k \in 1..Len(receipts) : receipts[k].TxHash = TxHash(Txs[k])
    /\ Succeeded =>
          /\ Len(ret.receipts) = NTxs
          /\ \A k \in 1..NTxs : ret.receipts[k].TxHash = TxHash(Txs[k])
          /\ ret.logs = Concat([k \in 1..NTxs |-> ret.receipts[k].Logs])

C10_Witness ==
    /\ Succeeded
    /\ NTxs = 2
    /\ Txs[1] # Txs[2]
    /\ Len(ret.receipts[1].Logs) = 1
    /\ Len(ret.receipts[2].Logs) = 1
    /\ Len(ret.logs) = 2

\* C11: the receipt of a successfully applied transaction without recipient
\* carries the address derived from its sender and its nonce; the receipt of one
\* with a recipient carries no contract address.
C11_ContractAddress ==
    \A k \in 1..Len(receipts) :
        IF Txs[k].to = <<>>
        THEN receipts[k].ContractAddress =
                 <<<<"contract", Txs[k].from, Txs[k].nonce>>>>
        ELSE receipts[k].ContractAddress = <<>>

C11_Witness ==
    /\ Succeeded
    /\ NTxs = 2
    /\ Txs[1].to = <<>>
    /\ Txs[2].to # <<>>
    /\ ret.receipts[1].ContractAddress = <<<<"contract", "b", 1>>>>
    /\ ret.receipts[2].ContractAddress = <<>>

\* A second invocation of Process on the same StateProcessor, with the block
\* and the chain configuration of the first and a fresh copy of the state the
\* first started from.  The outcome of the first call is kept in first; the
\* package-level big.Int values are whatever the first call left.
ProcessAgain ==
    /\ pc = "done"
    /\ ~first.called
    /\ first' = [called |-> TRUE, ret |-> ret, statedb |-> statedb,
                 credits |-> Credits]
    /\ pc' = "loop"
    /\ gp' = AddGas(0, block.gasLimit)
    /\ mem' = BlockNumbersOf(mem, block)
    /\ i' = 1
    /\ receipts' = <<>>
    /\ allLogs' = <<>>
    /\ totalUsedGas' = 0
    /\ ret' = NoRet
    /\ statedb' = NewStateDB
    /\ journal' = <<>>
    /\ UNCHANGED <<config, block, u, era>>

NextTwice ==
    \/ Next
    \/ ProcessAgain

SpecTwice == Init /\ [][NextTwice]_vars

\* C12: a second invocation of Process on the same block and configuration,
\* against an equal copy of the state, ends with the receipts, logs, gas used,
\* error, state and reward credits of the first.
C12_Deterministic ==
    (Done /\ first.called) =>
        /\ ret = first.ret
        /\ statedb = first.statedb
        /\ Credits = first.credits

C12_Witness ==
    /\ Succeeded
    /\ first.called
    /\ NTxs = 1
    /\ NUncles = 2
    /\ Len(first.credits) = 3
    /\ Len(first.ret.receipts) = 1

\* The reward credits as a function of a header's number and coinbase and of
\* its uncles alone.
RewardCreditsOf(number, coinbase, uncles) ==
    [k \in 1..(Len(uncles) + 1) |->
        IF k <= Len(uncles)
        THEN <<uncles[k].coinbase,
               ((uncles[k].number + 8 - number) * 5000000) \div 8>>
        ELSE <<coinbase, 5000000 + Len(uncles) * 156250>>]

\* C13: the reward credits of a successfully processed block are determined by
\* its header number, its coinbase and its uncle headers: whatever its
\* transactions are and whatever gas they use, the recipients and amounts are
\* those of any other block with that header and those uncles.
C13_RewardsIgnoreTxs ==
    Succeeded =>
        Credits = RewardCreditsOf(block.number, block.coinbase, block.uncles)

C13_Witness ==
    /\ Succeeded
    /\ NTxs = 1
    /\ ret.gas = <<1>>
    /\ NUncles = 1
    /\ Credits = <<<<"b", 4375000>>, <<"a", 5156250>>>>

\* The logs the first n transactions of the block emit when they are applied
\* in order, without their position in the state's log list.
RECURSIVE EmittedBy(_)
EmittedBy(n) ==
    IF n = 0 THEN <<>>
    ELSE EmittedBy(n - 1) \o
         [j \in 1..Txs[n].nlogs |-> [txHash |-> <<"tx", Txs[n]>>, txIndex |-> n - 1]]

\* C14: when Process fails at transaction k, the state holds what transactions
\* 0..k-1 did to it, in order, and nothing else: every one of them is applied,
\* their logs are there, no balance has changed and no reward credit was made.
C14_NoRollback ==
    Failed =>
        LET n == Len(receipts)
        IN  /\ n < NTxs
            /\ \A j \in 1..n : AppliedOk(j)
            /\ \A j \in (n + 1)..NTxs : ~AppliedOk(j)
            /\ statedb.applied = [j \in 1..n |-> <<"tx", Txs[j]>>]
            /\ [j \in 1..Len(statedb.logs) |->
                    [txHash |-> statedb.logs[j].txHash,
                     txIndex |-> statedb.logs[j].txIndex]] = EmittedBy(n)
            /\ statedb.balance = [a \in Addrs |-> 0]
            /\ Credits = <<>>

C14_Witness ==
    /\ Failed
    /\ NTxs = 2
    /\ ret.err.kind = "ValidationError"
    /\ Len(statedb.applied) = 1
    /\ Len(statedb.logs) = 1

\* C15: the validation error Process returns for a mismatching protected
\* transaction names the chain identifier the replay-protection rule carries at
\* the block's number and the transaction's chain identifier.
C15_ErrorNamesCompared ==
    (Done /\ ret.err.kind = "ValidationError") =>
        /\ <<ret.err.a>> = GetFeature(config, block.number).chainID
        /\ ret.err.b = Txs[Len(receipts) + 1].chainId

\* The number of logs the transactions before transaction k (1-based) emit.
LogsBefore(k) == SumSeq([j \in 1..(k - 1) |-> Txs[j].nlogs])

\* C16: the recording context is set to (tx.hash, block.hash, i) right before
\* transaction i is handed to ApplyTransaction, after the transaction before it
\* is finished, so the logs of receipt i are the logs transaction i emits,
\* stamped with that context; a transaction that the chain-id check rejects
\* never has its context set.
C16_RecordingContext ==
    /\ \A k \in 1..Len(receipts) :
          receipts[k].Logs =
              [j \in 1..Txs[k].nlogs |->
                  [txHash |-> <<"tx", Txs[k]>>, blockHash |-> BlockHash(block),
                   txIndex |-> k - 1, index |-> LogsBefore(k) + j - 1]]
    /\ \A p \in Positions("ApplyTransaction") :
          /\ p > 1
          /\ journal[p - 1] = Event("StartRecord", <<journal[p].arg[1]>>)
    /\ \A p \in Positions("StartRecord") :
          /\ journal[p].arg[1] =
                Cardinality({q \in Positions("ApplyTransaction") : q < p})
          /\ Passes(Txs[journal[p].arg[1] + 1])
    /\ (pc = "loop" /\ i > 1) =>
          /\ statedb.thash = <<"tx", Txs[i - 1]>>
          /\ statedb.bhash = BlockHash(block)
          /\ statedb.txIndex = i - 2
    /\ (Done /\ ret.err.kind \in {"ValidationError", "ConfigurationError"}) =>
          /\ \A p \in Positions("StartRecord") :
                journal[p].arg[1] # Len(receipts)
          /\ Len(receipts) > 0 => statedb.txIndex = Len(receipts) - 1

C16_Witness ==
    /\ Succeeded
    /\ NTxs = 2
    /\ Txs[1].protected
    /\ Len(ret.receipts[1].Logs) = 1
    /\ Len(ret.receipts[2].Logs) = 1
    /\ ret.receipts[2].Logs[1].txIndex = 1
    /\ ret.receipts[2].Logs[1].index = 1
    /\ Len(Calls("StartRecord")) = 2

\* The number of transactions the loop has reached.
Reached ==
    IF pc = "loop" THEN i - 1
    ELSE IF Failed THEN Len(receipts) + 1
    ELSE NTxs

\* The calls on the Fork Gate, those of signer resolution included.
GateConsultations ==
    SelectSeq(journal, LAMBDA e : e.op \in {"GetFeature", "GetSigner"})

\* C17 as stated: the Fork Gate has been consulted once for each protected
\* transaction the loop has reached, each time with the block's number, and
\* not for any unprotected one.
C17_Original ==
    /\ Len(GateConsultations) =
          Cardinality({k \in 1..Reached : Txs[k].protected})
    /\ \A p \in 1..Len(GateConsultations) :
          GateConsultations[p].arg = <<block.number>>
    /\ \A k \in 1..Reached : ~Txs[k].protected => Applied(k)

\* C17 (amended): Process has asked the Fork Gate for the replay-protection
\* rule once for each protected transaction the loop has reached, each time
\* with the block's number, and not for any unprotected one; every unprotected
\* transaction the loop has reached was handed to ApplyTransaction, whatever
\* the configuration; ApplyTransaction has asked the Fork Gate for the signer
\* once for each transaction handed to it, with the block's number.
C17_GateOnlyForProtected ==
    /\ Len(Calls("GetFeature")) =
          Cardinality({k \in 1..Reached : Txs[k].protected})
    /\ \A p \in Positions("GetFeature") :
          /\ journal[p].arg = <<block.number>>
          /\ p < Len(journal) =>
                /\ journal[p + 1].op = "StartRecord"
                /\ Txs[journal[p + 1].arg[1] + 1].protected
    /\ \A k \in 1..Reached : ~Txs[k].protected => Applied(k)
    /\ Len(Calls("GetSigner")) = Len(Calls("ApplyTransaction"))
    /\ \A p \in Positions("GetSigner") :
          /\ journal[p].arg = <<block.number>>
          /\ journal[p - 1].op = "ApplyTransaction"

C17_Witness ==
    /\ Succeeded
    /\ config = <<Fork(20, <<1>>)>>
    /\ block.number = 25
    /\ NTxs = 2
    /\ ~Txs[1].protected
    /\ Txs[2].protected
    /\ Calls("GetFeature") = <<Event("GetFeature", <<25>>)>>
    /\ Len(Calls("GetSigner")) = 2

\* C18: the credit of an uncle more than 8 blocks behind the header is the
\* negative amount (u.number + 8 - header.number) * baseReward / 8, the credit
\* of an uncle exactly 8 blocks behind is zero, and the coinbase still gets
\* baseReward / 32 for each such uncle.
C18_NoClamp ==
    /\ \A k \in 1..NUncles :
          k <= Len(Credits) =>
              LET d == block.number - Uncles[k].number
              IN  /\ d > 8 => /\ Credits[k][2] < 0
                              /\ Credits[k][2] = (8 - d) * 625000
                  /\ d = 8 => Credits[k][2] = 0
    /\ Succeeded =>
          Credits[NUncles + 1][2] = 5000000 + NUncles * 156250

C18_Witness ==
    /\ Succeeded
    /\ NUncles = 2
    /\ block.number = 10
    /\ Credits = <<<<"a", -625000>>, <<"b", 0>>, <<"a", 5312500>>>>
    /\ statedb.balance["a"] = 4687500

\* C19: while and after AccumulateRewards runs, the protocol constants, the
\* header's Number and every uncle's Number hold the values they had before
\* the call, and the block-reward accumulator is baseReward plus
\* baseReward / 32 for each uncle done, whatever r was used for in between.
C19_NoAliasing ==
    /\ mem.MaximumBlockReward = 5000000
    /\ mem.big8 = 8
    /\ mem.big32 = 32
    /\ pc # "idle" =>
          /\ mem.header = block.number
          /\ mem.uncles = [k \in 1..NUncles |-> Uncles[k].number]
    /\ pc = "rewards" => mem.reward = 5000000 + (u - 1) * 156250
    /\ Succeeded => mem.reward = 5000000 + NUncles * 156250

C19_Witness ==
    /\ Succeeded
    /\ NUncles = 2
    /\ mem.uncles = <<9, 1>>
    /\ mem.header = 10
    /\ mem.r = 156250
    /\ mem.reward = 5312500

----------------------------------------------------------------------------
(* getBlockEra *)

MaxBlockNum == 24
MaxEraLength == 5

\* big.Int.DivMod(x, y, m) for y > 0: the quotient and the modulus, in the
\* order DivMod returns them.
DivMod(x, y) == <<x \div y, x % y>>

\* Lines 156-160: the second result of DivMod, plus one.
getBlockEra(blockNum, eraLength) ==
    LET m == DivMod(blockNum, eraLength)[2]
    IN  m + 1

InitEra ==
    /\ config = <<>>
    /\ pc = "idle"
    /\ block = EmptyBlock
    /\ i = 0
    /\ receipts = <<>>
    /\ allLogs = <<>>
    /\ totalUsedGas = 0
    /\ gp = 0
    /\ ret = NoRet
    /\ statedb = NewStateDB
    /\ journal = <<>>
    /\ mem = NewMem
    /\ u = 0
    /\ first = NoFirst
    /\ era \in [blockNum : 0..MaxBlockNum, eraLength : 1..MaxEraLength,
                result : {<<>>}]

\* One call of getBlockEra on the inputs drawn by InitEra.
GetBlockEraCall ==
    /\ era.result = <<>>
    /\ era' = [era EXCEPT !.result = <<getBlockEra(era.blockNum, era.eraLength)>>]
    /\ UNCHANGED <<config, pc, block, i, receipts, allLogs, totalUsedGas, gp,
                   ret, statedb, journal, mem, u, first>>

NextEra == GetBlockEraCall

SpecEra == InitEra /\ [][NextEra]_vars

\* C20: getBlockEra(blockNum, eraLength) is floor(blockNum / eraLength) + 1,
\* the 1-based era the block is within.
C20_EraIsQuotient ==
    era.result # <<>> =>
        era.result = <<(era.blockNum \div era.eraLength) + 1>>

====
